---- MODULE Spec2Model ----
(***************************************************************************)
(* Model of pmc.catch.core.catcher: a context manager / decorator that     *)
(* classifies the exception leaving a scope, counts errors and warnings    *)
(* in a per-activation counter and in a process-wide singleton counter,    *)
(* and decides what propagates to the caller.                              *)
(*                                                                         *)
(* A behaviour is one thread of control running nested `with catcher(..)`  *)
(* statements: With opens a scope, Raise ends the body of the innermost    *)
(* scope with an exception, ExitScope runs __exit__ of the innermost guard *)
(* and applies the `with` protocol to its result, Reset is the counter     *)
(* reset between two test cases.                                           *)
(***************************************************************************)
EXTENDS Integers, Sequences, FiniteSets, TLC

\* Number of guards constructed between two resets.
MaxGuards == 3

\* Number of adapter invocations and direct __exit__ calls between two resets.
MaxCalls == 2

\* Number of threads that deactivate a guard concurrently.
NumThreads == 2

----------------------------------------------------------------------------
(* Exceptions.  An exception object is a record: its class (kind), the     *)
(* identity of the object (id) and the exit code it carries (code).        *)

NoCond == [kind |-> "None", id |-> "none", code |-> 0]

Cond(k, i, c) == [kind |-> k, id |-> i, code |-> c]

\* objects a scope body raises
e_one == Cond("Exception", "e_one", 0)
w == Cond("Warning", "w", 0)
kbd == Cond("KeyboardInterrupt", "kbd", 0)
abort == Cond("Abort", "abort", 0)
sysExit == Cond("SystemExit", "se", -5)
pmcExit == Cond("Exit", "exit", -2)
stopIter == Cond("StopIteration", "stop", 0)
runtimeErr == Cond("RuntimeError", "rt", 0)
clickAbort == Cond("ClickAbort", "cabort", 0)
clickExit == Cond("ClickExit", "cexit", 0)

\* objects configured as on_errors_raise
se1 == Cond("SystemExit", "se1", -1)
se2 == Cond("SystemExit", "se2", -2)
se3 == Cond("SystemExit", "se3", -3)

\* an ExitCodeException object: an Exception whose exit_code attribute is -3
exitCodeExc == Cond("Exception", "exit_code_exc", -3)

\* objects the guard itself creates
ExitKbd == Cond("Exit", "raised_for_kbd", 1)
ExitAbort == Cond("Exit", "raised_for_abort", -1)
UsageError == Cond("RuntimeError", "usage", 0)
AttributeError == Cond("AttributeError", "no__reraise_types", 0)

\* objects raised by user callbacks
HandlerError == Cond("Exception", "post_handler_raised", 0)
FormatterError == Cond("Exception", "formatter_raised", 0)

\* direct base class of each exception class
Base(k) ==
  CASE k = "Abort" -> "RuntimeError"
    [] k = "ClickAbort" -> "RuntimeError"
    [] k = "ClickExit" -> "RuntimeError"
    [] k = "Exit" -> "SystemExit"
    [] k = "RuntimeError" -> "Exception"
    [] k = "StopIteration" -> "Exception"
    [] k = "Warning" -> "Exception"
    [] k = "AttributeError" -> "Exception"
    [] k = "Exception" -> "BaseException"
    [] k = "SystemExit" -> "BaseException"
    [] k = "KeyboardInterrupt" -> "BaseException"
    [] OTHER -> "object"

RECURSIVE IsSubclass(_, _)
IsSubclass(k, t) ==
  IF k = t THEN TRUE
  ELSE IF k \in {"BaseException", "object", "None"} THEN FALSE
  ELSE IsSubclass(Base(k), t)

\* isinstance(e, types) for a tuple of classes
IsInstance(e, types) == \E t \in types : IsSubclass(e.kind, t)

\* the tuple assigned to _reraise_types when reraise_types is None
DefaultReraiseTypes ==
  {"ClickAbort", "ClickExit", "Exit", "StopIteration", "RuntimeError",
   "SystemExit", "KeyboardInterrupt"}

\* the reraise_types argument of a guard built with
\* catcher(reraise_types=Warning)
ExplicitReraiseTypes == {"Warning"}

----------------------------------------------------------------------------
(* Counters *)

ExceptionCounter == [errors |-> 0, warnings |-> 0]

counts(c) == <<c.errors, c.warnings>>

----------------------------------------------------------------------------
(* Guard configuration and construction *)

DefaultCfg ==
  [post_handler |-> "none", formatter |-> "none", enter_message |-> FALSE,
   exit_message |-> FALSE, report_counts |-> FALSE, on_errors_raise |-> NoCond,
   reraise |-> FALSE, type |-> FALSE, reraise_types |-> "default"]

\* catcher.__init__ : the guard object right after construction
Construct(cfg, par) ==
  [cfg |-> cfg, exception |-> NoCond, entered |-> FALSE,
   hasLocal |-> FALSE, local |-> ExceptionCounter, parent |-> par]

\* log lines
Line(lv, txt, n) == [level |-> lv, text |-> txt, n |-> n]

\* faulty variant: no check of the entered flag
ActivateNoCheck(g) ==
  [raised |-> NoCond,
   guard |-> [g EXCEPT !.entered = TRUE, !.hasLocal = TRUE,
                       !.local = ExceptionCounter],
   lines |-> IF g.cfg.enter_message
             THEN <<Line("info", "enter_message", 0)>> ELSE <<>>]

\* catcher.__enter__
Activate(g) ==
  IF g.entered
  THEN [raised |-> UsageError, guard |-> g, lines |-> <<>>]
  ELSE [raised |-> NoCond,
        guard |-> [g EXCEPT !.entered = TRUE, !.hasLocal = TRUE,
                            !.local = ExceptionCounter],
        lines |-> IF g.cfg.enter_message
                  THEN <<Line("info", "enter_message", 0)>> ELSE <<>>]

----------------------------------------------------------------------------
(* Deactivation: catcher.__exit__ and the methods it calls *)

\* _format_exception and _list: the number of messages for e, or the
\* exception the formatter raised.  With type=True the formatter is not called.
FormatMessages(cfg, e) ==
  IF cfg.type THEN [raised |-> NoCond, k |-> 1]
  ELSE CASE cfg.formatter = "none" -> [raised |-> NoCond, k |-> 1]
         [] cfg.formatter = "k0" -> [raised |-> NoCond, k |-> 0]
         [] cfg.formatter = "k2" -> [raised |-> NoCond, k |-> 2]
         [] cfg.formatter = "raises" -> [raised |-> FormatterError, k |-> 0]

\* faulty variant: no transparent branch, such exceptions are counted
ClassifyNoTransparent(cfg, e) ==
  IF IsInstance(e, {"KeyboardInterrupt"}) THEN "kbd"
  ELSE IF IsInstance(e, {"Abort"}) THEN "abort"
  ELSE IF IsInstance(e, {"Warning"}) THEN "warning"
  ELSE "error"

\* faulty variant: no KeyboardInterrupt branch
ClassifyNoKbd(cfg, e) ==
  IF IsInstance(e, {"Abort"}) THEN "abort"
  ELSE IF cfg.reraise_types # "default" THEN "noattr"
  ELSE IF IsInstance(e, DefaultReraiseTypes) THEN "transparent"
  ELSE IF IsInstance(e, {"Warning"}) THEN "warning"
  ELSE "error"

\* faulty variant: the transparent set is consulted before the Abort rule
ClassifyTransparentFirst(cfg, e) ==
  IF IsInstance(e, {"KeyboardInterrupt"}) THEN "kbd"
  ELSE IF cfg.reraise_types # "default" THEN "noattr"
  ELSE IF IsInstance(e, DefaultReraiseTypes) THEN "transparent"
  ELSE IF IsInstance(e, {"Abort"}) THEN "abort"
  ELSE IF IsInstance(e, {"Warning"}) THEN "warning"
  ELSE "error"

\* faulty variant: no warning branch, a Warning is counted as an error
ClassifyWarningAsError(cfg, e) ==
  IF IsInstance(e, {"KeyboardInterrupt"}) THEN "kbd"
  ELSE IF IsInstance(e, {"Abort"}) THEN "abort"
  ELSE IF cfg.reraise_types # "default" THEN "noattr"
  ELSE IF IsInstance(e, DefaultReraiseTypes) THEN "transparent"
  ELSE "error"

\* the if/elif chain of _handle_exception: first match wins
Classify(cfg, e) ==
  IF IsInstance(e, {"KeyboardInterrupt"}) THEN "kbd"
  ELSE IF IsInstance(e, {"Abort"}) THEN "abort"
  ELSE IF cfg.reraise_types # "default" THEN "noattr"
  ELSE IF IsInstance(e, DefaultReraiseTypes) THEN "transparent"
  ELSE IF IsInstance(e, {"Warning"}) THEN "warning"
  ELSE "error"

\* k log lines for condition e at level lv
RECURSIVE Lines(_, _, _)
Lines(lv, e, k) ==
  IF k = 0 THEN <<>> ELSE Append(Lines(lv, e, k - 1), Line(lv, e.id, k))

\* faulty variant: the global counter is overwritten, not added to
MergeOverwrite(glob, local) == local

\* pass counts to the ExceptionCounterGlobal singleton
Merge(glob, local) ==
  [errors |-> glob.errors + local.errors,
   warnings |-> glob.warnings + local.warnings]

\* catcher._handle_exception
HandleException(cfg, local, glob, e) ==
  LET m == FormatMessages(cfg, e)
      c == Classify(cfg, e)
      stop(x, ls) == [raised |-> x, local |-> local, glob |-> glob, lines |-> ls]
  IN IF m.raised # NoCond THEN stop(m.raised, <<>>)
     ELSE CASE c = "kbd" -> stop(ExitKbd, <<Line("fatal", "_kbd_interrupt_msg", 0)>>)
            [] c = "abort" -> stop(ExitAbort, <<Line("fatal", e.id, 0)>>)
            [] c = "noattr" -> stop(AttributeError, <<>>)
            [] c = "transparent" -> stop(e, <<>>)
            [] c = "warning" ->
                 LET l2 == [local EXCEPT !.warnings = @ + m.k]
                 IN [raised |-> NoCond, local |-> l2, glob |-> Merge(glob, l2),
                     lines |-> Lines("warning", e, m.k)]
            [] c = "error" ->
                 LET l2 == [local EXCEPT !.errors = @ + m.k]
                 IN [raised |-> NoCond, local |-> l2, glob |-> Merge(glob, l2),
                     lines |-> Lines("error", e, m.k)]

\* faulty variant: the handler is called a second time
CallPostHandlerTwice(cfg, e) ==
  CASE cfg.post_handler = "none" -> [raised |-> NoCond, calls |-> <<>>]
    [] cfg.post_handler = "ok" -> [raised |-> NoCond, calls |-> <<e, e>>]
    [] cfg.post_handler = "raises" -> [raised |-> HandlerError, calls |-> <<e, e>>]

\* catcher._call_post_handler
CallPostHandler(cfg, e) ==
  CASE cfg.post_handler = "none" -> [raised |-> NoCond, calls |-> <<>>]
    [] cfg.post_handler = "ok" -> [raised |-> NoCond, calls |-> <<e>>]
    [] cfg.post_handler = "raises" -> [raised |-> HandlerError, calls |-> <<e>>]

\* faulty variant: the count report is logged only when there are errors
ReportOnExitOnlyOnErrors(cfg, glob) ==
  (IF glob.errors # 0 /\ cfg.exit_message
   THEN <<Line("info", "exit_message", 0)>> ELSE <<>>)
  \o (IF glob.errors # 0 /\ cfg.report_counts
      THEN <<Line("info", "total_errors", glob.errors)>> ELSE <<>>)

\* faulty variant: the exit message is logged only on the way to raising the
\* payload
ReportOnExitNeedsPayload(cfg, glob) ==
  (IF glob.errors # 0 /\ cfg.exit_message /\ cfg.on_errors_raise # NoCond
   THEN <<Line("info", "exit_message", 0)>> ELSE <<>>)
  \o (IF cfg.report_counts
      THEN <<Line("info", "total_errors", glob.errors)>> ELSE <<>>)

\* catcher._report_on_exit
ReportOnExit(cfg, glob) ==
  (IF glob.errors # 0 /\ cfg.exit_message
   THEN <<Line("info", "exit_message", 0)>> ELSE <<>>)
  \o (IF cfg.report_counts
      THEN <<Line("info", "total_errors", glob.errors)>> ELSE <<>>)

\* faulty variant: a new exit signal with the default code is raised
\* instead of the configured object
RaiseOnErrorsFreshExit(cfg, glob) ==
  IF glob.errors # 0 /\ cfg.on_errors_raise # NoCond
  THEN Cond("SystemExit", "derived", -1) ELSE NoCond

\* faulty variant: the payload is raised whatever the error count
RaiseOnErrorsAlways(cfg, glob) == cfg.on_errors_raise

\* catcher._raise_on_errors
RaiseOnErrors(cfg, glob) ==
  IF glob.errors # 0 /\ cfg.on_errors_raise # NoCond
  THEN cfg.on_errors_raise ELSE NoCond

\* faulty variants: the return value ignores the reraise flag
ExitReturnNone(cfg) == "None"

ExitReturnTrue(cfg) == "True"

\* the value __exit__ returns when it does not raise
ExitReturn(cfg) == IF cfg.reraise THEN "None" ELSE "True"

\* faulty variant: the deactivation clears the entered flag
RecordExceptionClearsEntered(g, e) ==
  [g EXCEPT !.exception = e, !.entered = FALSE]

\* faulty variant: the exception is not recorded
RecordExceptionSkip(g, e) == g

\* self._exception = e
RecordException(g, e) == [g EXCEPT !.exception = e]

\* faulty variant: the exception of the try block wins
LeavesTryFirst(tryRaised, finallyRaised) ==
  IF tryRaised # NoCond THEN tryRaised ELSE finallyRaised

\* try: ... finally: ...  -- an exception raised by the finally block
\* replaces the one raised in the try block
Leaves(tryRaised, finallyRaised) ==
  IF finallyRaised # NoCond THEN finallyRaised ELSE tryRaised

\* faulty variant: no finally block, the two calls follow the try block
\* and are skipped when it raised
FinallySkippedOnRaise(cfg, glob, tryRaised) ==
  IF tryRaised # NoCond
  THEN [lines |-> <<>>, raised |-> NoCond, runs |-> 0]
  ELSE [lines |-> ReportOnExit(cfg, glob), raised |-> RaiseOnErrors(cfg, glob),
        runs |-> 1]

\* the finally block of __exit__: _report_on_exit() then _raise_on_errors(),
\* whatever the try block raised
Finally(cfg, glob, tryRaised) ==
  [lines |-> ReportOnExit(cfg, glob), raised |-> RaiseOnErrors(cfg, glob),
   runs |-> 1]

\* faulty variant: the entered flag is not checked
NotEnteredIgnored(g) == FALSE

\* the check that opens __exit__: `if not self._entered`
NotEntered(g) == ~g.entered

\* catcher.__exit__(type(e), e, tb) on guard g with global counter glob
ExitGuard(g, glob, e) ==
  IF NotEntered(g)
  THEN [guard |-> g, glob |-> glob, raised |-> UsageError, ret |-> "raised",
        lines |-> <<>>, calls |-> <<>>, finals |-> 0, fired |-> FALSE,
        classRaised |-> NoCond, usage |-> TRUE]
  ELSE
    LET cfg == g.cfg
        none == [raised |-> NoCond, local |-> g.local, glob |-> glob, lines |-> <<>>]
        h == IF e # NoCond THEN HandleException(cfg, g.local, glob, e) ELSE none
        p == IF e # NoCond /\ h.raised = NoCond
             THEN CallPostHandler(cfg, e) ELSE [raised |-> NoCond, calls |-> <<>>]
        tryRaised == IF h.raised # NoCond THEN h.raised ELSE p.raised
        f == Finally(cfg, h.glob, tryRaised)
        out == Leaves(tryRaised, f.raised)
    IN [guard |-> [RecordException(g, e) EXCEPT !.local = h.local],
        glob |-> h.glob,
        raised |-> out,
        ret |-> IF out # NoCond THEN "raised" ELSE ExitReturn(cfg),
        lines |-> h.lines \o f.lines,
        calls |-> p.calls,
        finals |-> f.runs,
        fired |-> f.raised # NoCond,
        classRaised |-> h.raised, usage |-> FALSE]

\* the `with` statement: what leaves the statement after __exit__ returned r
Propagated(r, e) ==
  IF r.raised # NoCond THEN r.raised
  ELSE IF r.ret = "True" THEN NoCond
  ELSE e

----------------------------------------------------------------------------
(* State *)

VARIABLES
  profile,   \* which configurations and exceptions this run draws from
  guards,    \* the guard objects constructed since the last reset
  stack,     \* indices of the guards whose scope is open, innermost last
  pending,   \* exception propagating into the innermost open scope's exit
  glob,      \* catcher._exception_counter, the ExceptionCounterGlobal singleton
  log,       \* lines received by the logger since the last reset
  hist,      \* one record per completed __exit__ since the last reset
  received,  \* what left the last outermost `with` statement
  tally,     \* scopes whose body raised an Exception / a Warning object
  acts,      \* one record per __enter__ / __exit__ called on an existing guard
  adapters,  \* the Inner objects made by decorating: parent guard and _context
  threads    \* per thread: position inside __exit__ and the values it read

vars == <<profile, guards, stack, pending, glob, log, hist, received, tally,
          acts, adapters, threads>>

Cfg(payload, rr) ==
  [DefaultCfg EXCEPT !.on_errors_raise = payload, !.reraise = rr]

\* The configurations and raised objects of each profile.
Profiles ==
  {"kinds", "transparent", "payload", "reraise", "report", "callbacks",
   "adapter", "types", "exitcode", "handler", "formatter"}

\* the profiles whose runs decorate callables and call __exit__ directly
UsesAdapters(p) == p = "adapter"

ProfileCfgs(p) ==
  CASE p = "kinds" -> {DefaultCfg}
    [] p = "transparent" -> {DefaultCfg}
    [] p = "payload" -> {DefaultCfg, Cfg(se1, FALSE), Cfg(se2, FALSE)}
    [] p = "reraise" -> {DefaultCfg, Cfg(NoCond, TRUE), Cfg(se1, TRUE)}
    [] p = "report" ->
         {[DefaultCfg EXCEPT !.report_counts = TRUE],
          [DefaultCfg EXCEPT !.exit_message = TRUE, !.enter_message = TRUE],
          [DefaultCfg EXCEPT !.report_counts = TRUE, !.exit_message = TRUE,
                             !.on_errors_raise = se1]}
    [] p = "callbacks" ->
         {[DefaultCfg EXCEPT !.post_handler = "ok", !.formatter = "k2",
                             !.reraise = TRUE],
          [DefaultCfg EXCEPT !.post_handler = "raises", !.reraise = TRUE],
          [DefaultCfg EXCEPT !.formatter = "raises", !.reraise = TRUE]}
    [] p = "adapter" ->
         {DefaultCfg,
          [DefaultCfg EXCEPT !.post_handler = "ok", !.report_counts = TRUE,
                             !.exit_message = TRUE, !.on_errors_raise = se1]}
    [] p = "types" -> {[DefaultCfg EXCEPT !.reraise_types = "explicit"]}
    [] p = "formatter" ->
         {[DefaultCfg EXCEPT !.formatter = "k2"],
          [DefaultCfg EXCEPT !.formatter = "k0"]}
    [] p = "exitcode" -> {Cfg(se1, FALSE), Cfg(se3, FALSE)}
    [] p = "handler" ->
         {[DefaultCfg EXCEPT !.post_handler = "ok"],
          [DefaultCfg EXCEPT !.post_handler = "raises", !.on_errors_raise = se1]}

ProfileConds(p) ==
  CASE p = "kinds" -> {e_one, w, kbd, abort, sysExit}
    [] p = "transparent" ->
         {pmcExit, stopIter, runtimeErr, clickAbort, clickExit}
    [] p = "payload" -> {e_one, sysExit}
    [] p = "reraise" -> {e_one, w}
    [] p = "report" -> {e_one, kbd}
    [] p = "callbacks" -> {e_one, sysExit}
    [] p = "adapter" -> {e_one}
    [] p = "types" -> {e_one, w, kbd}
    [] p = "formatter" -> {e_one, w}
    [] p = "exitcode" -> {exitCodeExc, abort}
    [] p = "handler" -> {e_one, w, kbd, abort}

Init ==
  /\ profile \in Profiles
  /\ guards = <<>>
  /\ stack = <<>>
  /\ pending = NoCond
  /\ glob = ExceptionCounter
  /\ log = <<>>
  /\ hist = <<>>
  /\ received = NoCond
  /\ tally = ExceptionCounter
  /\ acts = <<>>
  /\ adapters = <<>>
  /\ threads = <<>>

Top == stack[Len(stack)]

\* `with catcher(**cfg) as ctx:` -- construct a guard and enter its scope
With(cfg) ==
  /\ ~UsesAdapters(profile)
  /\ pending = NoCond
  /\ Len(guards) < MaxGuards
  /\ LET par == IF stack = <<>> THEN 0 ELSE Top
         a == Activate(Construct(cfg, par))
     IN /\ guards' = Append(guards, a.guard)
        /\ stack' = Append(stack, Len(guards) + 1)
        /\ log' = log \o a.lines
  /\ UNCHANGED <<profile, pending, glob, hist, received, tally, acts, adapters,
                 threads>>

\* the body of the innermost open scope raises c
Raise(c) ==
  /\ stack # <<>>
  /\ pending = NoCond
  /\ pending' = c
  /\ tally' = [errors |-> tally.errors + (IF c.kind = "Exception" THEN 1 ELSE 0),
               warnings |-> tally.warnings + (IF c.kind = "Warning" THEN 1 ELSE 0)]
  /\ UNCHANGED <<profile, guards, stack, glob, log, hist, received, acts,
                 adapters, threads>>

\* the innermost scope ends: __exit__ runs with the pending exception (or
\* None) and the `with` statement swallows, re-raises or replaces it
ExitScope ==
  /\ stack # <<>>
  /\ \E r \in {ExitGuard(guards[Top], glob, pending)} :
     LET i == Top
         out == Propagated(r, pending)
         rest == SubSeq(stack, 1, Len(stack) - 1)
     IN /\ guards' = [guards EXCEPT ![i] = r.guard]
        /\ glob' = r.glob
        /\ log' = log \o r.lines
        /\ stack' = rest
        /\ pending' = IF rest = <<>> THEN NoCond ELSE out
        /\ received' = IF rest = <<>> THEN out ELSE received
        /\ hist' = Append(hist,
             [g |-> i, e |-> pending, raised |-> r.raised, ret |-> r.ret,
              out |-> out, fired |-> r.fired, classRaised |-> r.classRaised,
              before |-> glob, after |-> r.glob, local |-> r.guard.local,
              localBefore |-> guards[i].local, exception |-> r.guard.exception,
              lines |-> r.lines, calls |-> r.calls, finals |-> r.finals,
              usage |-> r.usage,
              returned |-> IF out # NoCond THEN "raised"
                           ELSE IF pending = NoCond THEN "result" ELSE "None"])
  /\ UNCHANGED <<profile, tally, acts, adapters, threads>>

\* an exception raised by a call made from the running code: it propagates
\* into the innermost open scope, or to the caller when no scope is open
ToCaller(x) ==
  /\ pending' = IF stack = <<>> THEN NoCond ELSE x
  /\ received' = IF stack = <<>> THEN x ELSE received

\* `@catcher(**cfg)` on a callable, at top level: catcher.__init__ then
\* catcher.__call__, which returns an Inner object bound to that one guard
Decorate(cfg) ==
  /\ UsesAdapters(profile)
  /\ stack = <<>>
  /\ Len(guards) < MaxGuards
  /\ guards' = Append(guards, Construct(cfg, 0))
  /\ adapters' = Append(adapters, [parent |-> Len(guards) + 1, context |-> 0])
  /\ UNCHANGED <<profile, stack, pending, glob, log, hist, received, tally,
                 acts, threads>>

\* Inner.__call__: `with parent as ctx: self._context = ctx; return func()`
\* up to the start of func; the body and the exit are Raise and ExitScope
Call(a) ==
  /\ UsesAdapters(profile)
  /\ pending = NoCond
  /\ Len(acts) < MaxCalls
  /\ \E r \in {Activate(guards[adapters[a].parent])} :
     LET g == adapters[a].parent
         par == IF stack = <<>> THEN 0 ELSE Top
         rec == [op |-> "enter", g |-> g, e |-> NoCond, raised |-> r.raised,
                 before |-> guards[g], after |-> r.guard,
                 globBefore |-> glob, globAfter |-> glob, lines |-> r.lines,
                 calls |-> <<>>, finals |-> 0]
     IN /\ acts' = Append(acts, rec)
        /\ log' = log \o r.lines
        /\ IF r.raised # NoCond
           THEN /\ ToCaller(r.raised)
                /\ UNCHANGED <<guards, stack, adapters>>
           ELSE /\ guards' = [guards EXCEPT ![g] = [r.guard EXCEPT !.parent = par]]
                /\ stack' = Append(stack, g)
                /\ adapters' = [adapters EXCEPT ![a].context = g]
                /\ UNCHANGED <<pending, received>>
  /\ UNCHANGED <<profile, glob, hist, tally, threads>>

\* g.__exit__(type(c), c, tb) called directly, from top-level code
ExitAgain(g, c) ==
  /\ UsesAdapters(profile)
  /\ stack = <<>>
  /\ Len(acts) < MaxCalls
  /\ \E r \in {ExitGuard(guards[g], glob, c)} :
     LET rec == [op |-> "exit", g |-> g, e |-> c, raised |-> r.raised,
                 before |-> guards[g], after |-> r.guard,
                 globBefore |-> glob, globAfter |-> r.glob, lines |-> r.lines,
                 calls |-> r.calls, finals |-> r.finals]
     IN /\ acts' = Append(acts, rec)
        /\ guards' = [guards EXCEPT ![g] = r.guard]
        /\ glob' = r.glob
        /\ log' = log \o r.lines
        /\ IF r.raised # NoCond
           THEN ToCaller(r.raised)
           ELSE UNCHANGED <<pending, received>>
  /\ UNCHANGED <<profile, stack, hist, tally, adapters, threads>>

\* ExceptionCounterGlobal().reset() between two test cases; the guards of
\* the finished test case are gone
Reset ==
  /\ stack = <<>>
  /\ guards # <<>>
  /\ glob' = ExceptionCounter
  /\ guards' = <<>>
  /\ log' = <<>>
  /\ hist' = <<>>
  /\ received' = NoCond
  /\ tally' = ExceptionCounter
  /\ acts' = <<>>
  /\ adapters' = <<>>
  /\ UNCHANGED <<profile, stack, pending, threads>>

Next ==
  \/ \E cfg \in ProfileCfgs(profile) : With(cfg)
  \/ \E c \in ProfileConds(profile) : Raise(c)
  \/ ExitScope
  \/ Reset
  \/ \E cfg \in ProfileCfgs(profile) : Decorate(cfg)
  \/ \E a \in 1..Len(adapters) : Call(a)
  \/ \E g \in 1..Len(guards), c \in ProfileConds(profile) \cup {NoCond} :
       ExitAgain(g, c)

Spec == Init /\ [][Next]_vars

----------------------------------------------------------------------------
(* Concurrent deactivation: each thread leaves the scope of its own guard.
   `glob.errors_count += local.errors_count` is a property read, an addition
   and a property write on the shared singleton, with no lock around them, so
   a thread switch can fall between the read and the write. *)

Threads == 1..Len(threads)

ThreadConds == {e_one, w}

\* every thread has activated a default guard of its own and a condition
\* has been raised in its scope
InitThreads ==
  /\ profile = "kinds"
  /\ \E es \in [1..NumThreads -> ThreadConds] :
       /\ threads = [t \in 1..NumThreads |->
                       [g |-> t, e |-> es[t], pc |-> "exit", tmp |-> 0,
                        out |-> NoCond]]
       /\ guards = [t \in 1..NumThreads |->
                      Activate(Construct(DefaultCfg, 0)).guard]
  /\ stack = <<>>
  /\ pending = NoCond
  /\ glob = ExceptionCounter
  /\ log = <<>>
  /\ hist = <<>>
  /\ received = NoCond
  /\ tally = ExceptionCounter
  /\ acts = <<>>
  /\ adapters = <<>>

At(t, l) == threads[t].pc = l

Goto(t, l) == threads' = [threads EXCEPT ![t].pc = l]

\* __exit__ up to the call of _handle_exception
TExit(t) ==
  /\ At(t, "exit")
  /\ guards' = [guards EXCEPT ![threads[t].g] =
                  RecordException(guards[threads[t].g], threads[t].e)]
  /\ Goto(t, "handle")
  /\ UNCHANGED <<profile, stack, pending, glob, log, hist, received, tally,
                 acts, adapters>>

\* _handle_exception up to the merge: log the messages, count them locally
THandle(t) ==
  /\ At(t, "handle")
  /\ LET g == threads[t].g
         e == threads[t].e
         cfg == guards[g].cfg
         k == FormatMessages(cfg, e).k
         c == Classify(cfg, e)
     IN /\ c \in {"warning", "error"}
        /\ log' = log \o Lines(c, e, k)
        /\ guards' = [guards EXCEPT ![g].local =
                        IF c = "error"
                        THEN [@ EXCEPT !.errors = @ + k]
                        ELSE [@ EXCEPT !.warnings = @ + k]]
  /\ Goto(t, "loadE")
  /\ UNCHANGED <<profile, stack, pending, glob, hist, received, tally, acts,
                 adapters>>

\* the read of global_exception_counter.errors_count
TLoadErrors(t) ==
  /\ At(t, "loadE")
  /\ threads' = [threads EXCEPT ![t].pc = "storeE", ![t].tmp = glob.errors]
  /\ UNCHANGED <<profile, guards, stack, pending, glob, log, hist, received,
                 tally, acts, adapters>>

\* the write of global_exception_counter.errors_count
TStoreErrors(t) ==
  /\ At(t, "storeE")
  /\ glob' = [glob EXCEPT !.errors =
                threads[t].tmp + guards[threads[t].g].local.errors]
  /\ Goto(t, "loadW")
  /\ UNCHANGED <<profile, guards, stack, pending, log, hist, received, tally,
                 acts, adapters>>

\* the read of global_exception_counter.warnings_count
TLoadWarnings(t) ==
  /\ At(t, "loadW")
  /\ threads' = [threads EXCEPT ![t].pc = "storeW", ![t].tmp = glob.warnings]
  /\ UNCHANGED <<profile, guards, stack, pending, glob, log, hist, received,
                 tally, acts, adapters>>

\* the write of global_exception_counter.warnings_count
TStoreWarnings(t) ==
  /\ At(t, "storeW")
  /\ glob' = [glob EXCEPT !.warnings =
                threads[t].tmp + guards[threads[t].g].local.warnings]
  /\ Goto(t, "finally")
  /\ UNCHANGED <<profile, guards, stack, pending, log, hist, received, tally,
                 acts, adapters>>

\* _call_post_handler, the finally block and the return of __exit__
TFinally(t) ==
  /\ At(t, "finally")
  /\ LET cfg == guards[threads[t].g].cfg
         h == CallPostHandler(cfg, threads[t].e)
         f == Finally(cfg, glob, h.raised)
     IN /\ log' = log \o f.lines
        /\ threads' = [threads EXCEPT ![t].pc = "done", ![t].out = f.raised]
  /\ UNCHANGED <<profile, guards, stack, pending, glob, hist, received, tally,
                 acts, adapters>>

NextThreads ==
  \E t \in Threads :
    \/ TExit(t)
    \/ THandle(t)
    \/ TLoadErrors(t)
    \/ TStoreErrors(t)
    \/ TLoadWarnings(t)
    \/ TStoreWarnings(t)
    \/ TFinally(t)

SpecThreads == InitThreads /\ [][NextThreads]_vars

----------------------------------------------------------------------------
(* Properties *)

Recs == 1..Len(hist)

Acts == 1..Len(acts)

CfgOf(i) == guards[hist[i].g].cfg

\* the deactivation was accepted: the guard had been activated
Accepted(i) == ~hist[i].usage

\* hist[i] is the exit of a scope directly nested in the scope of hist[i+1]
InnerThenOuter(i) ==
  /\ i + 1 \in Recs
  /\ guards[hist[i].g].parent = hist[i + 1].g

AllDefault == \A i \in 1..Len(guards) : guards[i].cfg = DefaultCfg

IsErrorKind(e) ==
  /\ e # NoCond
  /\ ~IsInstance(e, {"KeyboardInterrupt", "Abort", "Warning"} \cup DefaultReraiseTypes)

IsWarningKind(e) ==
  /\ IsInstance(e, {"Warning"})
  /\ ~IsInstance(e, {"KeyboardInterrupt", "Abort"} \cup DefaultReraiseTypes)

\* in the transparent set, and neither an interactive interrupt nor an Abort
IsTransparentKind(e) ==
  /\ IsInstance(e, DefaultReraiseTypes)
  /\ ~IsInstance(e, {"KeyboardInterrupt", "Abort"})

\* the formatter, if one is called, returns
FormatterReturns(cfg) == cfg.type \/ cfg.formatter # "raises"

\* C1: starting from a reset global counter, once every scope of a run of
\* default-configured guards (sequential or nested) has ended, where the
\* scopes raised only error-kind or warning-kind conditions, the global
\* counter reads (N, M): N scopes raised an error, M scopes raised a warning.
\* Every guard is deactivated by the end of its scope only.
C1_GlobalCountsRaised ==
  (/\ stack = <<>>
   /\ AllDefault
   /\ \A i \in Acts : acts[i].op = "enter"
   /\ \A i \in Recs : hist[i].e = NoCond \/ IsErrorKind(hist[i].e)
                      \/ IsWarningKind(hist[i].e))
  => counts(glob) = <<tally.errors, tally.warnings>>

C1_Witness ==
  /\ stack = <<>>
  /\ AllDefault
  /\ \A i \in Recs : hist[i].e = NoCond \/ IsErrorKind(hist[i].e)
                     \/ IsWarningKind(hist[i].e)
  /\ \E i \in 1..Len(guards) : guards[i].parent # 0
  /\ <<tally.errors, tally.warnings>> = <<2, 1>>
  /\ counts(glob) = <<2, 1>>

\* C2 (as stated): every condition raised inside a freshly constructed
\* guard with default configuration is suppressed by deactivation and does
\* not leave the scope.
C2_EveryConditionSuppressed ==
  \A i \in Recs :
    (Accepted(i) /\ CfgOf(i) = DefaultCfg /\ hist[i].e # NoCond)
    => (hist[i].ret = "True" /\ hist[i].out = NoCond)

\* C2 (amended): every error-kind or warning-kind condition (neither an
\* interactive interrupt, nor an Abort, nor of a transparent kind) raised
\* inside a freshly constructed guard with default configuration is
\* suppressed by deactivation and does not leave the scope.
C2_ErrorsAndWarningsSuppressed ==
  \A i \in Recs :
    (/\ Accepted(i)
     /\ CfgOf(i) = DefaultCfg
     /\ (IsErrorKind(hist[i].e) \/ IsWarningKind(hist[i].e)))
    => (hist[i].ret = "True" /\ hist[i].out = NoCond)

C2_Witness ==
  \E i, j \in Recs :
    /\ CfgOf(i) = DefaultCfg /\ hist[i].e = e_one /\ hist[i].out = NoCond
    /\ CfgOf(j) = DefaultCfg /\ hist[j].e = w /\ hist[j].out = NoCond

C4_PayloadIffGlobalErrors ==
  \A i \in Recs :
    Accepted(i) =>
      ((CfgOf(i).on_errors_raise # NoCond /\ hist[i].after.errors > 0)
       <=> (/\ hist[i].raised # NoCond
            /\ hist[i].raised = CfgOf(i).on_errors_raise
            /\ hist[i].out = hist[i].raised))

C4_Witness ==
  \E i \in Recs :
    /\ hist[i].e = NoCond
    /\ hist[i].localBefore = ExceptionCounter
    /\ hist[i].local = ExceptionCounter
    /\ CfgOf(i).on_errors_raise = se1
    /\ hist[i].raised = se1
    /\ \E j \in Recs : j < i /\ CfgOf(j).on_errors_raise = se2
                       /\ hist[j].e = sysExit /\ hist[j].after.errors = 0
                       /\ hist[j].out = sysExit

\* configured with nothing but an on_errors_raise payload
OnlyPayload(cfg) ==
  /\ cfg.on_errors_raise # NoCond
  /\ cfg = [DefaultCfg EXCEPT !.on_errors_raise = cfg.on_errors_raise]

\* hist[i] is the last exit so far and it ended the outermost scope
Outermost(i) ==
  /\ i = Len(hist)
  /\ stack = <<>>
  /\ guards[hist[i].g].parent = 0

ReraiseNoPayload(cfg) ==
  /\ cfg.reraise
  /\ cfg.on_errors_raise = NoCond
  /\ cfg.reraise_types = "default"
  /\ cfg.post_handler # "raises"
  /\ FormatterReturns(cfg)

C7_OriginalReachesCaller ==
  \A i \in Recs :
    (/\ InnerThenOuter(i)
     /\ CfgOf(i) = Cfg(NoCond, TRUE)
     /\ CfgOf(i + 1).reraise
     /\ OnlyPayload([CfgOf(i + 1) EXCEPT !.reraise = FALSE])
     /\ IsErrorKind(hist[i].e))
    => /\ hist[i].exception = hist[i].e
       /\ hist[i + 1].exception = hist[i].e
       /\ hist[i + 1].out = hist[i].e

\* the lines of hist[i] that are not produced by the finalization step
ConditionLines(i) ==
  SelectSeq(hist[i].lines,
            LAMBDA l : l.text \notin {"exit_message", "total_errors"})

CountersUnchanged(i) ==
  /\ hist[i].local = hist[i].localBefore
  /\ hist[i].after = hist[i].before

\* a guard with the default transparent set whose formatter returns sees a
\* transparent condition
TransparentCase(i) ==
  /\ Accepted(i)
  /\ CfgOf(i).reraise_types = "default"
  /\ FormatterReturns(CfgOf(i))
  /\ IsTransparentKind(hist[i].e)

KbdCase(i) ==
  /\ Accepted(i)
  /\ FormatterReturns(CfgOf(i))
  /\ IsInstance(hist[i].e, {"KeyboardInterrupt"})

\* every scope is default, all scopes are closed, the innermost scope
\* raised a KeyboardInterrupt and each later exit is the enclosing scope's
KbdThroughDefaults ==
  /\ AllDefault
  /\ stack = <<>>
  /\ hist # <<>>
  /\ IsInstance(hist[1].e, {"KeyboardInterrupt"})
  /\ \A i \in Recs : i + 1 \in Recs => InnerThenOuter(i)

\* what C9 says apart from the exit code: one fatal line with the fixed
\* message, nothing counted, conversion to an Exit signal that enclosing
\* default guards pass on without logging
KbdHandling(i) ==
  /\ ConditionLines(i) = <<Line("fatal", "_kbd_interrupt_msg", 0)>>
  /\ CountersUnchanged(i)
  /\ hist[i].classRaised.kind = "Exit"
  /\ hist[i].classRaised # hist[i].e
  /\ ~hist[i].fired => hist[i].out = hist[i].classRaised
  /\ (InnerThenOuter(i) /\ CfgOf(i) = DefaultCfg /\ CfgOf(i + 1) = DefaultCfg)
       => /\ hist[i + 1].lines = <<>>
          /\ hist[i + 1].out = hist[i].classRaised

\* C9 (as stated): a KeyboardInterrupt caught by a guard is logged at fatal
\* severity with the fixed message, is not counted and is converted into an
\* Exit signal carrying a fixed negative code; through enclosing default
\* guards nothing more is logged and the outermost caller receives the Exit.
C9_KbdExitNegativeCode ==
  /\ \A i \in Recs : KbdCase(i) => (KbdHandling(i) /\ hist[i].classRaised.code < 0)
  /\ KbdThroughDefaults
       => (Len(log) = 1 /\ received.kind = "Exit" /\ received.code < 0)

\* C9 (amended): the same, with the Exit signal carrying the fixed code 1.
C9_KbdExitCodeOne ==
  /\ \A i \in Recs : KbdCase(i) => (KbdHandling(i) /\ hist[i].classRaised.code = 1)
  /\ KbdThroughDefaults
       => (/\ log = <<Line("fatal", "_kbd_interrupt_msg", 0)>>
           /\ received.kind = "Exit" /\ received.code = 1
           /\ received = hist[1].classRaised)

C9_Witness ==
  /\ KbdThroughDefaults
  /\ Len(hist) = 3
  /\ hist[1].e = kbd
  /\ received = ExitKbd
  /\ Len(log) = 1

\* an Abort reaches an activated guard whose formatter returns
AbortCase(i) ==
  /\ Accepted(i)
  /\ FormatterReturns(CfgOf(i))
  /\ IsInstance(hist[i].e, {"Abort"})

\* C10: an Abort is logged at fatal severity and converted into an Exit
\* signal with code -1 without being counted; the Abort rule comes before the
\* transparent-set rule, so the Abort object itself never leaves the guard
\* although Abort is a RuntimeError and RuntimeError is transparent.
C10_AbortToExit ==
  \A i \in Recs :
    AbortCase(i)
    => /\ IsInstance(hist[i].e, DefaultReraiseTypes)
       /\ ConditionLines(i) = <<Line("fatal", hist[i].e.id, 0)>>
       /\ CountersUnchanged(i)
       /\ hist[i].classRaised.kind = "Exit"
       /\ hist[i].classRaised.code = -1
       /\ hist[i].raised # hist[i].e
       /\ hist[i].out # hist[i].e
       /\ ~hist[i].fired => hist[i].out = hist[i].classRaised

C10_Witness ==
  \E i \in Recs :
    /\ hist[i].e = abort
    /\ hist[i].out = ExitAbort
    /\ hist[i].lines = <<Line("fatal", "abort", 0)>>

\* acts[i] is an activation attempt on a guard that had been activated before
SecondActivation(i) ==
  /\ acts[i].op = "enter"
  /\ acts[i].before.entered

\* C11: activating a guard that is active, or that was activated before and
\* has since been deactivated, fails with a usage error, and the failed
\* attempt changes neither the guard's counters and recorded condition nor
\* the global counter.
C11_SecondActivationFails ==
  \A i \in Acts :
    SecondActivation(i)
    => /\ acts[i].raised = UsageError
       /\ acts[i].after = acts[i].before
       /\ acts[i].globAfter = acts[i].globBefore
       /\ acts[i].lines = <<>>

\* a guard whose scope is still open is activated again
ActivatedWhileActive ==
  \E i \in Acts :
    /\ SecondActivation(i)
    /\ i = Len(acts)
    /\ stack = <<acts[i].g>>
    /\ pending = UsageError

\* a guard that counted an error and was deactivated is activated again, and
\* the usage error reaches the caller
C11_Witness ==
  \E i \in Acts :
    /\ SecondActivation(i)
    /\ acts[i].before.local = [errors |-> 1, warnings |-> 0]
    /\ acts[i].g \in {hist[j].g : j \in Recs}
    /\ stack = <<>>
    /\ received = UsageError

\* the number of activations of guard g made by adapter invocations
RECURSIVE Activations(_, _)
Activations(g, n) ==
  IF n = 0 THEN 0
  ELSE Activations(g, n - 1)
       + (IF acts[n].op = "enter" /\ acts[n].g = g /\ acts[n].raised = NoCond
          THEN 1 ELSE 0)

\* the number of deactivations of guard g at the end of its scope
RECURSIVE Deactivations(_, _)
Deactivations(g, n) ==
  IF n = 0 THEN 0
  ELSE Deactivations(g, n - 1) + (IF hist[n].g = g THEN 1 ELSE 0)

\* C12: every invocation of an adapted function activates the guard, which
\* gives it a fresh local counter (0, 0), and deactivates it exactly once
\* when the function ends; after an invocation that raised nothing the
\* guard's counter is (0, 0), no condition is recorded and the function's
\* result is returned.
C12_EveryInvocationActivates ==
  /\ \A i \in Acts :
       acts[i].op = "enter"
       => /\ acts[i].raised = NoCond
          /\ acts[i].after.entered
          /\ acts[i].after.local = ExceptionCounter
  /\ UsesAdapters(profile)
     => /\ \A i \in Recs :
             hist[i].e = NoCond
             => /\ hist[i].local = ExceptionCounter
                /\ hist[i].exception = NoCond
                /\ hist[i].returned = "result"
        /\ stack = <<>>
           => \A a \in 1..Len(adapters) :
                Activations(adapters[a].parent, Len(acts))
                  = Deactivations(adapters[a].parent, Len(hist))

\* the count-report lines of deactivation i
CountLines(i) ==
  SelectSeq(hist[i].lines, LAMBDA l : l.text = "total_errors")

\* the exit-message lines of deactivation i
ExitMessageLines(i) ==
  SelectSeq(hist[i].lines, LAMBDA l : l.text = "exit_message")

\* the lines that the finalization step of deactivation i logged
FinalLines(i) ==
  SelectSeq(hist[i].lines,
            LAMBDA l : l.text \in {"exit_message", "total_errors"})

\* the errors counted by the scopes deactivated so far
RECURSIVE ErrorsCounted(_)
ErrorsCounted(n) ==
  IF n = 0 THEN 0
  ELSE ErrorsCounted(n - 1)
       + (hist[n].local.errors - hist[n].localBefore.errors)

\* C13: a guard with report_counts set logs exactly one count-report line
\* per deactivation and a guard without the flag logs none; the line is the
\* last one of the deactivation, after the scope's own warning/error line,
\* it is logged also when the payload is then raised, and it reports the
\* global error count of that moment; the last line, logged by the outermost
\* flagged guard, carries the total number of errors counted.
C13_OneCountLinePerFlaggedGuard ==
  /\ \A i \in Recs :
       Accepted(i)
       => /\ Len(CountLines(i)) = IF CfgOf(i).report_counts THEN 1 ELSE 0
          /\ CfgOf(i).report_counts
             => /\ hist[i].lines[Len(hist[i].lines)]
                     = Line("info", "total_errors", hist[i].after.errors)
                /\ hist[i].lines = ConditionLines(i) \o FinalLines(i)
  /\ \A i \in Recs :
       /\ Outermost(i)
       /\ acts = <<>>
       /\ Accepted(i)
       /\ CfgOf(i).report_counts
       => /\ log[Len(log)] = Line("info", "total_errors", glob.errors)
          /\ glob.errors = ErrorsCounted(Len(hist))

\* three scopes: an unflagged one (no count line) and a flagged one nested
\* in a flagged outermost guard whose count line reads 2 although the payload
\* is then raised
C13_Witness ==
  /\ Len(hist) = 3
  /\ Outermost(3)
  /\ CfgOf(3).report_counts
  /\ hist[3].fired
  /\ CountLines(3) = <<Line("info", "total_errors", 2)>>
  /\ log[Len(log)] = Line("info", "total_errors", 2)
  /\ \E i \in {1, 2} :
       /\ ~CfgOf(i).report_counts
       /\ CountLines(i) = <<>>
       /\ hist[i].e = e_one
  /\ \E i \in {1, 2} :
       /\ CfgOf(i).report_counts
       /\ hist[i].lines = <<Line("error", "e_one", 1),
                            Line("info", "total_errors", 1)>>

\* C14: the exit message is logged at deactivation exactly when it is
\* configured and the global error count is greater than 0, with or without
\* a payload, and never when the count is 0; it comes after the condition's
\* own lines, and it is logged also when the payload is then raised.
C14_ExitMessageIffErrors ==
  \A i \in Recs :
    Accepted(i)
    => /\ Len(ExitMessageLines(i))
            = IF CfgOf(i).exit_message /\ hist[i].after.errors > 0
              THEN 1 ELSE 0
       /\ hist[i].lines = ConditionLines(i) \o FinalLines(i)
       /\ ExitMessageLines(i) # <<>>
          => FinalLines(i)[1] = Line("info", "exit_message", 0)

\* the exit message follows the error line of a guard without a payload, it
\* was logged by a guard whose payload was then raised, and it was not logged
\* by a guard deactivated while the count was 0
C14_Witness ==
  /\ \E i \in Recs :
       /\ CfgOf(i).exit_message
       /\ CfgOf(i).on_errors_raise = NoCond
       /\ hist[i].lines = <<Line("error", "e_one", 1),
                            Line("info", "exit_message", 0)>>
  /\ \E i \in Recs :
       /\ hist[i].fired
       /\ ExitMessageLines(i) = <<Line("info", "exit_message", 0)>>
  /\ \E i \in Recs :
       /\ CfgOf(i).exit_message
       /\ hist[i].after.errors = 0
       /\ ExitMessageLines(i) = <<>>

\* C15: a guard constructed with an explicit reraise_types set re-raises
\* every condition of a kind in that set as the identical object, without
\* counting it and without logging it; a condition outside the set is
\* classified as warning or error as usual.
C15_ExplicitTypesTransparent ==
  \A i \in Recs :
    /\ Accepted(i)
    /\ CfgOf(i).reraise_types = "explicit"
    /\ hist[i].e # NoCond
    /\ ~IsInstance(hist[i].e, {"KeyboardInterrupt", "Abort"})
    => IF IsInstance(hist[i].e, ExplicitReraiseTypes)
       THEN /\ hist[i].out = hist[i].e
            /\ CountersUnchanged(i)
            /\ hist[i].lines = <<>>
       ELSE /\ hist[i].out = NoCond
            /\ hist[i].local = [errors |-> 1, warnings |-> 0]
            /\ hist[i].lines = <<Line("error", hist[i].e.id, 1)>>

\* the sum of the local counters of the first n guards
RECURSIVE SumLocals(_)
SumLocals(n) ==
  IF n = 0 THEN ExceptionCounter ELSE Merge(SumLocals(n - 1), guards[n].local)

\* C16: when guards on different threads deactivate concurrently, no update
\* of the global counter is lost: once every thread has left its scope the
\* global counter is higher than before by the sum of the local counts (by 2
\* errors when two threads caught one error each).
C16_NoLostUpdate ==
  /\ threads # <<>>
  /\ \A t \in Threads : At(t, "done")
  => glob = SumLocals(Len(guards))

\* C18: the global counter equals the sum of the local counts of the guard
\* activations made since the last reset (an open scope that has not counted
\* yet contributes (0, 0)): each local increment is added to the global
\* counter exactly once, also when a guard is deactivated more than once.
C18_GlobalIsSumOfLocals ==
  threads = <<>> => glob = SumLocals(Len(guards))

\* C17: whenever the exit policy fires, the signal raised is the configured
\* on_errors_raise object itself, with the code it carries; the code is never
\* derived from the captured condition, so a condition whose exit_code is -3
\* yields exit code -3 only if the payload's code is -3.
C17_PayloadObjectRaised ==
  \A i \in Recs :
    hist[i].fired
    => /\ hist[i].raised = CfgOf(i).on_errors_raise
       /\ hist[i].out = CfgOf(i).on_errors_raise
       /\ hist[i].e = exitCodeExc
          => (hist[i].out.code = exitCodeExc.code
                <=> CfgOf(i).on_errors_raise.code = exitCodeExc.code)

\* the condition with exit_code -3 was captured by a guard whose payload
\* carries -1, and by a guard whose payload carries -3
C17_Witness ==
  /\ \E i \in Recs :
       /\ hist[i].e = exitCodeExc
       /\ hist[i].fired
       /\ CfgOf(i).on_errors_raise = se1
       /\ hist[i].out.code = -1
  /\ \E i \in Recs :
       /\ hist[i].e = exitCodeExc
       /\ hist[i].fired
       /\ CfgOf(i).on_errors_raise = se3
       /\ hist[i].out.code = -3

\* what the finalization step logs for configuration cfg at error count n
ExpectedFinalLines(cfg, n) ==
  (IF cfg.exit_message /\ n > 0
   THEN <<Line("info", "exit_message", 0)>> ELSE <<>>)
  \o (IF cfg.report_counts
      THEN <<Line("info", "total_errors", n)>> ELSE <<>>)

\* C19: the finalization step of a deactivation (exit message, count report,
\* on_errors_raise check) runs exactly once on every path: with no condition
\* captured, when classification re-raised or converted the condition, when
\* the formatter or the post-handler raised; if the exit policy fires there,
\* the payload is what leaves the deactivation, replacing the exception that
\* classification or the post-handler raised.
C19_FinalizationOnEveryPath ==
  \A i \in Recs :
    Accepted(i)
    => /\ hist[i].finals = 1
       /\ FinalLines(i) = ExpectedFinalLines(CfgOf(i), hist[i].after.errors)
       /\ hist[i].fired
            <=> (CfgOf(i).on_errors_raise # NoCond /\ hist[i].after.errors > 0)
       /\ hist[i].fired => hist[i].raised = CfgOf(i).on_errors_raise
       /\ ~hist[i].fired /\ hist[i].classRaised # NoCond
          => hist[i].raised = hist[i].classRaised
       /\ ~hist[i].fired /\ CfgOf(i).post_handler = "raises"
            /\ hist[i].calls # <<>>
          => hist[i].raised = HandlerError

\* the payload replaced the exception of a post-handler that raised, and it
\* replaced the Exit signal into which an interactive interrupt was
\* converted
C19_Witness ==
  /\ \E i \in Recs :
       /\ CfgOf(i).post_handler = "raises"
       /\ hist[i].calls = <<e_one>>
       /\ hist[i].fired
       /\ hist[i].raised = se1
  /\ \E i \in Recs :
       /\ hist[i].classRaised = ExitKbd
       /\ hist[i].fired
       /\ hist[i].raised = se1
       /\ hist[i].finals = 1

\* the condition of deactivation i was classified Warning or Error
Counted(i) ==
  /\ Accepted(i)
  /\ FormatterReturns(CfgOf(i))
  /\ CfgOf(i).reraise_types = "default"
  /\ IsErrorKind(hist[i].e) \/ IsWarningKind(hist[i].e)

\* C20: a configured post-handler is invoked exactly once per deactivation,
\* with the captured condition itself, when the condition was classified
\* Warning or Error, and the local count has been added to the global
\* counter by then; it is not invoked when no condition was captured, nor
\* for an interactive interrupt, an Abort or a transparent kind.
C20_PostHandlerOncePerCounted ==
  \A i \in Recs :
    /\ hist[i].calls
         = IF Counted(i) /\ CfgOf(i).post_handler # "none"
           THEN <<hist[i].e>> ELSE <<>>
    /\ hist[i].calls # <<>>
       => /\ hist[i].after = Merge(hist[i].before, hist[i].local)
          /\ hist[i].after # hist[i].before

\* a handler that raises was called with the error after the count was
\* merged, a handler was called with a warning, and a handler was not called
\* for an interactive interrupt, for an Abort and for a scope that raised
\* nothing
C20_Witness ==
  /\ \E i \in Recs :
       /\ CfgOf(i).post_handler = "raises"
       /\ hist[i].calls = <<e_one>>
       /\ hist[i].after.errors = hist[i].before.errors + 1
  /\ \E i \in Recs :
       /\ CfgOf(i).post_handler # "none"
       /\ hist[i].e \in {kbd, abort, NoCond}
       /\ hist[i].calls = <<>>
  /\ \E i \in Recs :
       /\ hist[i].calls = <<w>>

\* C21: when a guard with reraise=true re-raises an error-kind or
\* warning-kind condition, the bookkeeping for that condition is skipped: the
\* deactivation changes neither the local counter nor the global counter and
\* logs nothing, so an error propagating through nested reraise=true guards
\* adds nothing to the global error count.
C21_ReraiseSkipsBookkeeping ==
  \A i \in Recs :
    /\ Accepted(i)
    /\ ReraiseNoPayload(CfgOf(i))
    /\ CfgOf(i).post_handler = "none"
    /\ IsErrorKind(hist[i].e) \/ IsWarningKind(hist[i].e)
    /\ hist[i].out = hist[i].e
    => /\ CountersUnchanged(i)
       /\ hist[i].lines = <<>>

\* the number of messages that formatting a condition yields under cfg: one
\* string by default and with type=true, the formatter's iterable otherwise
MessagesOf(cfg) ==
  IF cfg.type \/ cfg.formatter = "none" THEN 1
  ELSE IF cfg.formatter = "k2" THEN 2
  ELSE 0

\* the local counter of deactivation i grew by the number of messages, in
\* the field of the condition's family, with one log line per message at the
\* matching severity
CountedByMessages(i) ==
  LET k == MessagesOf(CfgOf(i))
      warn == IsWarningKind(hist[i].e)
  IN /\ hist[i].local.warnings
          = hist[i].localBefore.warnings + (IF warn THEN k ELSE 0)
     /\ hist[i].local.errors
          = hist[i].localBefore.errors + (IF warn THEN 0 ELSE k)
     /\ Len(ConditionLines(i)) = k
     /\ \A j \in 1..k :
          ConditionLines(i)[j]
            = Line(IF warn THEN "warning" ELSE "error", hist[i].e.id, j)
     /\ CfgOf(i).formatter = "none"
        => hist[i].local = IF warn THEN [errors |-> 0, warnings |-> 1]
                           ELSE [errors |-> 1, warnings |-> 0]

\* the number of fields of the local counter that deactivation i changed
FieldsChanged(i) ==
  Cardinality({f \in {"errors", "warnings"} :
                 hist[i].local[f] # hist[i].localBefore[f]})

DefaultFormatterCountsOne ==
  \E i \in Recs :
    /\ CfgOf(i) = DefaultCfg
    /\ hist[i].e = e_one
    /\ hist[i].local = [errors |-> 1, warnings |-> 0]
    /\ hist[i].lines = <<Line("error", "e_one", 1)>>

\* acts[i] is a deactivation of a guard that was never activated
NeverActivated(i) ==
  /\ acts[i].op = "exit"
  /\ ~acts[i].before.entered

\* C23: deactivating a guard that was never activated fails with a usage
\* error before anything else happens: the condition is not recorded, no
\* counter changes, nothing is logged, the post-handler is not called and the
\* finalization step with the exit policy does not run.
C23_ExitWithoutEnterFails ==
  \A i \in Acts :
    NeverActivated(i)
    => /\ acts[i].raised = UsageError
       /\ acts[i].after = acts[i].before
       /\ acts[i].after.exception = NoCond
       /\ acts[i].globAfter = acts[i].globBefore
       /\ acts[i].lines = <<>>
       /\ acts[i].calls = <<>>
       /\ acts[i].finals = 0

\* an error is passed to a never-activated guard that has a post-handler, a
\* count report, an exit message and a payload, while the global error count
\* is 1: the usage error reaches the caller
C23_Witness ==
  \E i \in Acts :
    /\ NeverActivated(i)
    /\ i = Len(acts)
    /\ acts[i].e = e_one
    /\ acts[i].before.cfg.post_handler = "ok"
    /\ acts[i].before.cfg.on_errors_raise = se1
    /\ acts[i].before.cfg.report_counts
    /\ acts[i].globBefore.errors = 1
    /\ glob.errors = 1
    /\ received = UsageError

\* guard g has been activated since the last reset
WasActivated(g) ==
  \/ \E i \in 1..Len(stack) : stack[i] = g
  \/ \E i \in Recs : hist[i].g = g
  \/ \E i \in Acts : acts[i].g = g /\ acts[i].after.entered

\* C24: the entered flag of a guard is set by activation and never cleared:
\* a guard that has been activated stays entered, also after deactivation;
\* every later activation of it fails with the usage error and every later
\* deactivation of it is accepted.
C24_EnteredNeverCleared ==
  /\ \A g \in 1..Len(guards) : WasActivated(g) => guards[g].entered
  /\ \A i \in Recs : Accepted(i)
  /\ \A i \in Acts :
       /\ acts[i].op = "enter" /\ acts[i].raised = NoCond
          => ~acts[i].before.entered /\ acts[i].after.entered
       /\ acts[i].before.entered
          => /\ acts[i].after.entered
             /\ acts[i].op = "enter" => acts[i].raised = UsageError
             /\ acts[i].op = "exit"
                => acts[i].raised # UsageError /\ acts[i].finals = 1

\* a guard activated by an adapter call and deactivated at the end of the
\* call is deactivated again, and the second deactivation is accepted
C24_Witness ==
  \E i \in Acts :
    /\ acts[i].op = "exit"
    /\ i = Len(acts)
    /\ \E j \in Recs : hist[j].g = acts[i].g
    /\ acts[i].finals = 1
    /\ acts[i].raised = NoCond
    /\ guards[acts[i].g].entered
    /\ stack = <<>>

\* a guard deactivated at the end of its scope refuses a later activation
ActivationAfterDeactivationFails ==
  \E i \in Acts :
    /\ acts[i].op = "enter"
    /\ \E j \in Recs : hist[j].g = acts[i].g
    /\ acts[i].raised = UsageError
    /\ stack = <<>>

====
